---- MODULE Spec2Model ----
(***************************************************************************)
(* Model of the fastify / zod / prisma CRUD demo.                          *)
(*                                                                         *)
(*   server.js  (src/unnamed/part_001)  POST/GET/PUT/DELETE /users, /posts *)
(*   app.js     (src/demo-fastify/app.js)  POST /user                      *)
(*   schema     (src/prisma/prisma/schema.prisma, part_001:271-286)        *)
(*                                                                         *)
(* Strings that the code inspects (names, emails, url parameters) are      *)
(* sequences of one-character strings, so that length, the email format    *)
(* and parseInt are computed.  A request body is a JSON object: a function *)
(* from the keys it carries to their values; an absent key is absent from  *)
(* its DOMAIN.                                                             *)
(***************************************************************************)
EXTENDS Integers, Sequences, FiniteSets, TLC

VARIABLES
    users,       \* table User: id -> [name, email]      (schema.prisma:18-23)
    posts,       \* table Post: id -> [title, content, userId]  (part_001:279-286)
    userSeq,     \* last value drawn from the sequence of User.id
    postSeq,     \* last value drawn from the sequence of Post.id
    request,     \* the request handled last: route, url parameter, body
    response,    \* the reply to it: status, error thrown (if any), body
    storeCalls,  \* number of client calls the handler of that request made
    inflight,    \* create requests handled at the same time: each one's
                 \* position in its handler, body, data, result and reply
    app          \* the demo application (app.js): the position of start(),
                 \* the exit code, the console, the position of the request
                 \* in hand in its lifecycle, the number of requests received

vars == <<users, posts, userSeq, postSeq, request, response, storeCalls, inflight, app>>

\* ---------------------------------------------------------------- bounds
\* Values the autoincrement sequences may reach.
MaxUserSeq == 2
MaxPostSeq == 1
\* Create requests that may be in their handlers at the same time.
MaxInFlight == 2
\* Requests the demo application receives.
MaxRequests == 2

\* ---------------------------------------------------------------- inputs
Jo    == <<"J", "o">>
Joe   == <<"J", "o", "e">>
John  == <<"J", "o", "h", "n">>

MailA   == <<"a", "@", "x", ".", "c", "o">>
MailB   == <<"b", "@", "x", ".", "c", "o">>
NoMail  == <<"a", "x", ".", "c", "o">>

Elm     == <<"E", "l", "m">>

\* An id a client puts into a body; the sequence never gets that far.
BodyId == 9

\* The keys D of the record full, as a JSON object.
Pick(full, D) == [k \in D |-> full[k]]

\* The people whose data the requests carry: names of 2, 3 and 4
\* characters, two well-formed emails and a malformed one.
People ==
    { [name |-> John, email |-> MailA], [name |-> John, email |-> MailB],
      [name |-> Joe, email |-> MailA], [name |-> Jo, email |-> NoMail] }

\* The JSON objects sent as a User: any of the fields of a person, and a
\* complete one with an address as well.
UserBodies ==
    { Pick(full, D) : full \in People, D \in SUBSET {"name", "email"} }
    \cup { [name |-> John, email |-> MailA, address |-> Elm] }
    \cup { [id |-> BodyId, name |-> John, email |-> MailB] }

\* The JSON objects sent as the body of an update: the keys of a change
\* to a short name and another email, each alone, both and neither, and
\* the bodies that carry an address or an id.
UserPatches ==
    { Pick([name |-> Jo, email |-> MailB], D) : D \in SUBSET {"name", "email"} }
    \cup { [name |-> John, email |-> MailA, address |-> Elm] }
    \cup { [id |-> BodyId, name |-> John, email |-> MailB] }

\* Url parameters :id as they arrive, text.
IdParams == { <<"1">>, <<"2", "x">>, <<"x">> }

Hi        == <<"H", "i">>
Hey       == <<"H", "e", "y">>
Long10    == <<"1", "2", "3", "4", "5", "6", "7", "8", "9", "0">>

PostFields == {"title", "content", "userId"}

\* A JSON number: the integer below it and the tenths above that.
Num(n) == [int |-> n, tenths |-> 0]

\* The JSON number -1.5.
MinusOneAndAHalf == [int |-> -2, tenths |-> 5]

IsInteger(x) == x.tenths = 0

IsPositive(x) == x.int > 0 \/ (x.int = 0 /\ x.tenths > 0)

\* The JSON objects sent as a Post: well-formed ones for the user ids 0, 1
\* and 2, one with a short title and a short content, one with a field
\* left out, and one whose userId is -1.5.
PostBodies ==
    { [title |-> Hey, content |-> Long10, userId |-> Num(u)] : u \in {0, 1, 2} }
    \cup { [title |-> Hi, content |-> Hey, userId |-> Num(1)] }
    \cup { Pick([title |-> Hey, content |-> Long10, userId |-> Num(1)], PostFields \ {k}) :
             k \in PostFields }
    \cup { [title |-> Hey, content |-> Long10, userId |-> MinusOneAndAHalf] }

\* Bodies of PUT /posts/:id: the post is handed to the user 1 or 2.
PostPatches == { [userId |-> Num(u)] : u \in {1, 2} }

\* ------------------------------------------------------------ javascript
Digits == <<"0", "1", "2", "3", "4", "5", "6", "7", "8", "9">>

IsDigit(c) == \E i \in 1 .. 10 : Digits[i] = c

DigitValue(c) == (CHOOSE i \in 1 .. 10 : Digits[i] = c) - 1

RECURSIVE DigitPrefixLen(_, _)
\* Number of leading digits of s from position i on.
DigitPrefixLen(s, i) ==
    IF i > Len(s) \/ ~IsDigit(s[i]) THEN 0 ELSE 1 + DigitPrefixLen(s, i + 1)

RECURSIVE DecimalValue(_, _)
\* Value of the first n characters of s read as a decimal numeral.
DecimalValue(s, n) ==
    IF n = 0 THEN 0 ELSE 10 * DecimalValue(s, n - 1) + DigitValue(s[n])

\* parseInt(text): the longest leading run of decimal digits, NaN when
\* there is none ("2x" -> 2, "x" -> NaN).
parseInt(s) ==
    LET n == DigitPrefixLen(s, 1)
    IN  IF n = 0 THEN [isNaN |-> TRUE, value |-> 0]
        ELSE [isNaN |-> FALSE, value |-> DecimalValue(s, n)]

\* ------------------------------------------------------------------- zod
Letters ==
    { "a", "b", "c", "d", "e", "f", "g", "h", "i", "j", "k", "l", "m",
      "n", "o", "p", "q", "r", "s", "t", "u", "v", "w", "x", "y", "z",
      "A", "B", "C", "D", "E", "F", "G", "H", "I", "J", "K", "L", "M",
      "N", "O", "P", "Q", "R", "S", "T", "U", "V", "W", "X", "Y", "Z" }

IsAlnum(c) == c \in Letters \/ IsDigit(c)

\* The part before the "@": characters of the local alphabet, no leading,
\* trailing or doubled dot.
LocalOk(l) ==
    /\ Len(l) >= 1
    /\ \A i \in 1 .. Len(l) : IsAlnum(l[i]) \/ l[i] \in {"_", "'", "+", "-", "."}
    /\ l[1] # "."
    /\ l[Len(l)] \notin {".", "'"}
    /\ \A i \in 1 .. Len(l) - 1 : ~(l[i] = "." /\ l[i + 1] = ".")

\* The part after the "@": one or more labels, each ended by a dot, then
\* a top-level name of two or more letters.
DomainOk(d) ==
    LET dots == { i \in 1 .. Len(d) : d[i] = "." }
    IN  /\ dots # {}
        /\ LET last == CHOOSE i \in dots : \A j \in dots : j <= i
            IN  /\ Len(d) - last >= 2
                /\ \A i \in last + 1 .. Len(d) : d[i] \in Letters
                /\ IsAlnum(d[1])
                /\ \A i \in 1 .. last :
                      \/ IsAlnum(d[i])
                      \/ d[i] = "-"
                      \/ d[i] = "." /\ i > 1 /\ (i = last \/ IsAlnum(d[i + 1]))

\* z.string().email(): the format test of the validation library.
IsEmail(s) ==
    LET ats == { i \in 1 .. Len(s) : s[i] = "@" }
    IN  /\ Cardinality(ats) = 1
        /\ LET at == CHOOSE i \in ats : TRUE
            IN  /\ LocalOk(SubSeq(s, 1, at - 1))
                /\ DomainOk(SubSeq(s, at + 1, Len(s)))

Issue(path, message) == [path |-> path, message |-> message]

\* z.string().min(n, message) applied to key k of obj: a missing key is
\* reported "Required" and the length is not looked at.
StringMin(obj, k, n, message) ==
    IF k \notin DOMAIN obj THEN << Issue(k, "Required") >>
    ELSE IF Len(obj[k]) < n THEN << Issue(k, message) >>
    ELSE << >>

\* z.string().email(message) applied to key k of obj.
StringEmail(obj, k, message) ==
    IF k \notin DOMAIN obj THEN << Issue(k, "Required") >>
    ELSE IF ~IsEmail(obj[k]) THEN << Issue(k, message) >>
    ELSE << >>

\* z.number().int(message).positive() applied to key k of obj: every
\* check of the number is run, and each one that fails adds its issue.
NumberIntPositive(obj, k) ==
    IF k \notin DOMAIN obj THEN << Issue(k, "Required") >>
    ELSE (IF ~IsInteger(obj[k]) THEN << Issue(k, "User ID must be an integer") >>
          ELSE << >>)
         \o (IF ~IsPositive(obj[k]) THEN << Issue(k, "Number must be greater than 0") >>
             ELSE << >>)

\* What schema.parse gives: the parsed data (keys outside keep are
\* stripped), or the issues of every field when there is one.
ParseResult(obj, issues, keep) ==
    IF issues = << >>
    THEN [success |-> TRUE, data |-> Pick(obj, DOMAIN obj \cap keep), errors |-> << >>]
    ELSE [success |-> FALSE, data |-> << >>, errors |-> issues]

ServerNameMin == 3
TitleMin == 3
ContentMin == 10
SchemaNameMin == 4

\* Mutant of ServerCreateUserSchema: the parse stops at the first field
\* that fails.
ServerCreateUserSchema_FirstOnly(body) ==
    LET name == StringMin(body, "name", ServerNameMin,
                          "Name must be at least 3 characters long")
    IN  ParseResult(body,
                    IF name # << >> THEN name
                    ELSE StringEmail(body, "email", "Invalid email address"),
                    {"name", "email"})

\* server.js: createUserSchema.parse(body)
ServerCreateUserSchema(body) ==
    ParseResult(body,
                StringMin(body, "name", ServerNameMin,
                          "Name must be at least 3 characters long")
                \o StringEmail(body, "email", "Invalid email address"),
                {"name", "email"})

\* schemas/user.js: createUserSchema.parse(body)
createUserSchema(body) ==
    ParseResult(body,
                StringMin(body, "name", SchemaNameMin,
                          "Name must be at least 4 characters")
                \o StringEmail(body, "email", "Invalid email format"),
                {"name", "email", "address"})

\* server.js: createPostSchema.parse(body)
createPostSchema(body) ==
    ParseResult(body,
                StringMin(body, "title", TitleMin,
                          "Title must be at least 3 characters long")
                \o StringMin(body, "content", ContentMin,
                             "Content must be at least 10 characters long")
                \o NumberIntPositive(body, "userId"),
                {"title", "content", "userId"})

\* ---------------------------------------------------------------- prisma
\* The outcome of a client call: error "" and the value on success, the
\* error's name or code otherwise, with the tables as the call leaves them.
Result(error, value, us, ps, useq, pseq) ==
    [error |-> error, value |-> value, users |-> us, posts |-> ps,
     userSeq |-> useq, postSeq |-> pseq]

Failed(error) == Result(error, << >>, users, posts, userSeq, postSeq)

\* What a query that finds no row gives.
Null == [null |-> TRUE]

UserRow(id) == [id |-> id, name |-> users[id].name, email |-> users[id].email]

\* Mutant of EmailTaken: the email column without its unique index.
EmailTaken_NoIndex(email, except) == FALSE

\* Some stored User other than `except` has this email (email @unique).
EmailTaken(email, except) ==
    \E i \in DOMAIN users : i # except /\ users[i].email = email

\* Mutant of prisma_user_create: the id is one more than the highest id
\* stored, not the next value of a sequence.
prisma_user_create_HighestPlusOne(data) ==
    IF ~({"name", "email"} \subseteq DOMAIN data)
    THEN Failed("PrismaClientValidationError")
    ELSE IF EmailTaken(data.email, 0)
    THEN Result("P2002", << >>, users, posts, userSeq + 1, postSeq)
    ELSE LET id == IF users = << >> THEN 1
                   ELSE 1 + CHOOSE i \in DOMAIN users : \A j \in DOMAIN users : j <= i
         IN  Result("", [id |-> id, name |-> data.name, email |-> data.email],
                    users @@ (id :> [name |-> data.name, email |-> data.email]),
                    posts, userSeq + 1, postSeq)

\* Mutant of prisma_user_create: the insert does not look at the unique
\* index of email.
prisma_user_create_NoUniqueIndex(data) ==
    IF ~({"name", "email"} \subseteq DOMAIN data)
    THEN Failed("PrismaClientValidationError")
    ELSE LET id == userSeq + 1
         IN  Result("", [id |-> id, name |-> data.name, email |-> data.email],
                    users @@ (id :> [name |-> data.name, email |-> data.email]),
                    posts, id, postSeq)

\* prisma.user.create({ data }): name and email are required columns; the
\* id is the one data carries or else the next value of the sequence,
\* which a rejected insert has drawn all the same.
prisma_user_create(data) ==
    IF ~({"name", "email"} \subseteq DOMAIN data)
    THEN Failed("PrismaClientValidationError")
    ELSE IF "id" \in DOMAIN data
    THEN IF EmailTaken(data.email, 0) \/ data.id \in DOMAIN users
         THEN Failed("P2002")
         ELSE Result("", [id |-> data.id, name |-> data.name, email |-> data.email],
                     users @@ (data.id :> [name |-> data.name, email |-> data.email]),
                     posts, userSeq, postSeq)
    ELSE IF EmailTaken(data.email, 0)
    THEN Result("P2002", << >>, users, posts, userSeq + 1, postSeq)
    ELSE LET id == userSeq + 1
         IN  Result("", [id |-> id, name |-> data.name, email |-> data.email],
                    users @@ (id :> [name |-> data.name, email |-> data.email]),
                    posts, id, postSeq)

\* Mutant of prisma_user_findMany: the rows of the lowest id only.
prisma_user_findMany_First ==
    Result("", { UserRow(i) : i \in { j \in DOMAIN users : \A k \in DOMAIN users : j <= k } },
           users, posts, userSeq, postSeq)

\* prisma.user.findMany()
prisma_user_findMany == Result("", { UserRow(i) : i \in DOMAIN users },
                               users, posts, userSeq, postSeq)

\* prisma.user.findUnique({ where: { id } }): the row, or null.
prisma_user_findUnique(id) ==
    IF id.isNaN THEN Failed("PrismaClientValidationError")
    ELSE IF id.value \in DOMAIN users
    THEN Result("", UserRow(id.value), users, posts, userSeq, postSeq)
    ELSE Result("", Null, users, posts, userSeq, postSeq)

\* Mutant of prisma_user_update: the name is written before the unique
\* index refuses the email, and stays written.
prisma_user_update_WritesThenFails(id, data) ==
    IF id.isNaN THEN Failed("PrismaClientValidationError")
    ELSE IF id.value \notin DOMAIN users THEN Failed("P2025")
    ELSE LET old == users[id.value]
             new == [name  |-> IF "name" \in DOMAIN data THEN data.name ELSE old.name,
                     email |-> IF "email" \in DOMAIN data THEN data.email ELSE old.email]
         IN  IF "email" \in DOMAIN data /\ EmailTaken(data.email, id.value)
             THEN Result("P2002", << >>,
                         [users EXCEPT ![id.value] = [old EXCEPT !.name = new.name]],
                         posts, userSeq, postSeq)
             ELSE Result("", [id |-> id.value, name |-> new.name, email |-> new.email],
                         [users EXCEPT ![id.value] = new], posts, userSeq, postSeq)

\* Mutant of prisma_user_update: a key that data does not carry is written
\* as the empty string instead of being left alone.
prisma_user_update_ClearsAbsent(id, data) ==
    IF id.isNaN THEN Failed("PrismaClientValidationError")
    ELSE IF id.value \notin DOMAIN users THEN Failed("P2025")
    ELSE LET new == [name  |-> IF "name" \in DOMAIN data THEN data.name ELSE << >>,
                     email |-> IF "email" \in DOMAIN data THEN data.email ELSE << >>]
         IN  Result("", [id |-> id.value, name |-> new.name, email |-> new.email],
                    [users EXCEPT ![id.value] = new], posts, userSeq, postSeq)

\* prisma.user.update({ where: { id }, data }): a key that data does not
\* carry (undefined) is left as stored. An id that data carries moves the
\* row to that id, and the Posts of the row with it (onUpdate: Cascade).
prisma_user_update(id, data) ==
    IF id.isNaN THEN Failed("PrismaClientValidationError")
    ELSE IF id.value \notin DOMAIN users THEN Failed("P2025")
    ELSE IF "email" \in DOMAIN data /\ EmailTaken(data.email, id.value)
    THEN Failed("P2002")
    ELSE IF "id" \in DOMAIN data /\ data.id \in DOMAIN users \ {id.value}
    THEN Failed("P2002")
    ELSE LET old == users[id.value]
             new == [name  |-> IF "name" \in DOMAIN data THEN data.name ELSE old.name,
                     email |-> IF "email" \in DOMAIN data THEN data.email ELSE old.email]
             nid == IF "id" \in DOMAIN data THEN data.id ELSE id.value
             us  == [i \in (DOMAIN users \ {id.value}) \cup {nid} |->
                        IF i = nid THEN new ELSE users[i]]
             ps  == [p \in DOMAIN posts |->
                        IF posts[p].userId = id.value
                        THEN [posts[p] EXCEPT !.userId = nid] ELSE posts[p]]
         IN  Result("", [id |-> nid, name |-> new.name, email |-> new.email],
                    us, ps, userSeq, postSeq)

\* Mutant of prisma_user_delete: the call succeeds and the row stays.
prisma_user_delete_KeepsRow(id) ==
    IF id.isNaN THEN Failed("PrismaClientValidationError")
    ELSE IF id.value \notin DOMAIN users THEN Failed("P2025")
    ELSE Result("", UserRow(id.value), users, posts, userSeq, postSeq)

\* prisma.user.delete({ where: { id } }): a User that Posts refer to
\* cannot be deleted (the relation is required).
prisma_user_delete(id) ==
    IF id.isNaN THEN Failed("PrismaClientValidationError")
    ELSE IF id.value \notin DOMAIN users THEN Failed("P2025")
    ELSE IF \E p \in DOMAIN posts : posts[p].userId = id.value THEN Failed("P2003")
    ELSE Result("", UserRow(id.value),
                [i \in DOMAIN users \ {id.value} |-> users[i]],
                posts, userSeq, postSeq)

\* The data of a Post as the values of its columns: userId is an Int.
ColumnValues(data) ==
    [k \in DOMAIN data |-> IF k = "userId" THEN data[k].int ELSE data[k]]

\* The client refuses a userId that is not a whole number.
BadUserId(data) == "userId" \in DOMAIN data /\ ~IsInteger(data.userId)

\* prisma.post.create({ data }): userId is a foreign key to User.id.
prisma_post_create(data) ==
    IF ~({"title", "content", "userId"} \subseteq DOMAIN data) \/ BadUserId(data)
    THEN Failed("PrismaClientValidationError")
    ELSE LET d == ColumnValues(data)
         IN  IF d.userId \notin DOMAIN users
             THEN Result("P2003", << >>, users, posts, userSeq, postSeq + 1)
             ELSE LET id == postSeq + 1
                      row == [title |-> d.title, content |-> d.content,
                              userId |-> d.userId]
                  IN  Result("", [id |-> id, title |-> d.title, content |-> d.content,
                                  userId |-> d.userId],
                             users, posts @@ (id :> row), userSeq, id)

\* Mutant of prisma_post_update: the userId column without its foreign
\* key.
prisma_post_update_NoForeignKey(id, data) ==
    IF id.isNaN \/ BadUserId(data) THEN Failed("PrismaClientValidationError")
    ELSE IF id.value \notin DOMAIN posts THEN Failed("P2025")
    ELSE LET d   == ColumnValues(data)
             old == posts[id.value]
             new == [k \in PostFields |-> IF k \in DOMAIN d THEN d[k] ELSE old[k]]
         IN  Result("", [id |-> id.value, title |-> new.title, content |-> new.content,
                         userId |-> new.userId],
                    users, [posts EXCEPT ![id.value] = new], userSeq, postSeq)

\* prisma.post.update({ where: { id }, data }): keys that data does not
\* carry are left as stored; a userId it carries must be that of a User.
prisma_post_update(id, data) ==
    IF id.isNaN \/ BadUserId(data) THEN Failed("PrismaClientValidationError")
    ELSE IF id.value \notin DOMAIN posts THEN Failed("P2025")
    ELSE IF "userId" \in DOMAIN data /\ ColumnValues(data).userId \notin DOMAIN users
    THEN Failed("P2003")
    ELSE LET d   == ColumnValues(data)
             old == posts[id.value]
             new == [k \in PostFields |-> IF k \in DOMAIN d THEN d[k] ELSE old[k]]
         IN  Result("", [id |-> id.value, title |-> new.title, content |-> new.content,
                         userId |-> new.userId],
                    users, [posts EXCEPT ![id.value] = new], userSeq, postSeq)

\* prisma.post.delete({ where: { id } })
prisma_post_delete(id) ==
    IF id.isNaN THEN Failed("PrismaClientValidationError")
    ELSE IF id.value \notin DOMAIN posts THEN Failed("P2025")
    ELSE Result("", posts[id.value], users,
                [i \in DOMAIN posts \ {id.value} |-> posts[i]], userSeq, postSeq)

\* --------------------------------------------------------------- fastify
Request(op, param, body) == [op |-> op, param |-> param, body |-> body]

Reply(status, error, body) == [status |-> status, error |-> error, body |-> body]

\* What a catch block's reply.status(400).send(error.errors || error)
\* sends for an error of the store: the error object itself.
SentError(error) == [error |-> error]

\* The framework's answer to an error a handler did not catch.
InternalServerError(error) == Reply(500, error, << >>)

\* One request handled: the tables as the store call left them (r is the
\* call's result), the reply sent, and the number of store calls made.
\* The sequences stop at their bounds.
Handled(req, r, reply, calls) ==
    /\ r.userSeq <= MaxUserSeq
    /\ r.postSeq <= MaxPostSeq
    /\ request' = req
    /\ users' = r.users
    /\ posts' = r.posts
    /\ userSeq' = r.userSeq
    /\ postSeq' = r.postSeq
    /\ response' = reply
    /\ storeCalls' = calls
    /\ inflight' = inflight
    /\ app' = app

NoCall == Failed("")

\* Mutant of CreateUser: a create the store refused is tried once more.
CreateUser_TriesAgain(body) ==
    LET req    == Request("POST /users", << >>, body)
        parsed == ServerCreateUserSchema(body)
    IN  IF ~parsed.success
        THEN Handled(req, NoCall, Reply(400, "ZodError", parsed.errors), 0)
        ELSE LET r == prisma_user_create(parsed.data)
             IN  IF r.error # ""
                 THEN Handled(req, r, Reply(400, r.error, SentError(r.error)), 2)
                 ELSE Handled(req, r, Reply(201, "", r.value), 1)

\* server.js: fastify.post('/users')
CreateUser(body) ==
    LET req    == Request("POST /users", << >>, body)
        parsed == ServerCreateUserSchema(body)
    IN  IF ~parsed.success
        THEN Handled(req, NoCall, Reply(400, "ZodError", parsed.errors), 0)
        ELSE LET r == prisma_user_create(parsed.data)
             IN  IF r.error # ""
                 THEN Handled(req, r, Reply(400, r.error, SentError(r.error)), 1)
                 ELSE Handled(req, r, Reply(201, "", r.value), 1)

\* server.js: fastify.get('/users')
ListUsers ==
    LET r == prisma_user_findMany
    IN  IF r.error # ""
        THEN Handled(Request("GET /users", << >>, << >>), r,
                     InternalServerError(r.error), 1)
        ELSE Handled(Request("GET /users", << >>, << >>), r,
                     Reply(200, "", r.value), 1)

\* Mutant of GetUser: the result of findUnique is sent without the test
\* for null.
GetUser_NoNullCheck(param) ==
    LET req == Request("GET /users/:id", param, << >>)
        r   == prisma_user_findUnique(parseInt(param))
    IN  IF r.error # ""
        THEN Handled(req, r, InternalServerError(r.error), 1)
        ELSE Handled(req, r, Reply(200, "", r.value), 1)

\* server.js: fastify.get('/users/:id')
GetUser(param) ==
    LET req == Request("GET /users/:id", param, << >>)
        r   == prisma_user_findUnique(parseInt(param))
    IN  IF r.error # ""
        THEN Handled(req, r, InternalServerError(r.error), 1)
        ELSE IF r.value # Null
        THEN Handled(req, r, Reply(200, "", r.value), 1)
        ELSE Handled(req, r, Reply(404, "NotFound", [message |-> "User not found"]), 1)

\* ------------------------------------------- requests at the same time
\* A handler is one run of JavaScript up to its await, the call the store
\* carries out, and the run after the await; between these the handlers
\* of other requests run. The store carries out each insert as a whole.
Slots == 1 .. MaxInFlight

Idle == [pc |-> "idle", op |-> "", body |-> << >>, data |-> << >>,
         error |-> "", value |-> << >>, reply |-> Reply(0, "", << >>)]

OthersUntouched ==
    UNCHANGED <<request, response, storeCalls, app>>

\* The bodies of the create requests sent at the same time.
RaceBodies == People

\* server.js: fastify.post('/users'), up to await prisma.user.create.
CreateUserBegin(slot, body) ==
    LET parsed == ServerCreateUserSchema(body)
        at     == [Idle EXCEPT !.op = "POST /users", !.body = body]
    IN  /\ inflight[slot].pc = "idle"
        /\ inflight' = [inflight EXCEPT ![slot] =
               IF ~parsed.success
               THEN [at EXCEPT !.pc = "done",
                               !.reply = Reply(400, "ZodError", parsed.errors)]
               ELSE [at EXCEPT !.pc = "awaiting", !.data = parsed.data]]
        /\ UNCHANGED <<users, posts, userSeq, postSeq>>
        /\ OthersUntouched

\* app.js: fastify.post('/user'), up to await prisma.user.create.
DemoCreateUserBegin(slot, body) ==
    /\ inflight[slot].pc = "idle"
    /\ inflight' = [inflight EXCEPT ![slot] =
           [Idle EXCEPT !.op = "POST /user", !.body = body, !.pc = "awaiting",
                        !.data = Pick(body, DOMAIN body \cap {"name", "email"})]]
    /\ UNCHANGED <<users, posts, userSeq, postSeq>>
    /\ OthersUntouched

\* The store carries out the prisma.user.create of one awaiting handler.
StoreCreate(slot) ==
    LET r == prisma_user_create(inflight[slot].data)
    IN  /\ inflight[slot].pc = "awaiting"
        /\ users' = r.users
        /\ posts' = r.posts
        /\ userSeq' = r.userSeq
        /\ postSeq' = r.postSeq
        /\ inflight' = [inflight EXCEPT ![slot].pc = "resolved",
                                        ![slot].error = r.error,
                                        ![slot].value = r.value]
        /\ OthersUntouched

\* server.js: fastify.post('/users'), after the await: 201, or the catch.
CreateUserEnd(slot) ==
    LET at == inflight[slot]
    IN  /\ at.pc = "resolved"
        /\ at.op = "POST /users"
        /\ inflight' = [inflight EXCEPT ![slot].pc = "done", ![slot].reply =
               IF at.error # "" THEN Reply(400, at.error, SentError(at.error))
               ELSE Reply(201, "", at.value)]
        /\ UNCHANGED <<users, posts, userSeq, postSeq>>
        /\ OthersUntouched

\* app.js: fastify.post('/user'), after the await.
DemoCreateUserEnd(slot) ==
    LET at == inflight[slot]
    IN  /\ at.pc = "resolved"
        /\ at.op = "POST /user"
        /\ inflight' = [inflight EXCEPT ![slot].pc = "done", ![slot].reply =
               IF at.error # "" THEN InternalServerError(at.error)
               ELSE Reply(200, "", [message |-> "User created successfully",
                                    user |-> at.value])]
        /\ UNCHANGED <<users, posts, userSeq, postSeq>>
        /\ OthersUntouched

\* ------------------------------------------------ the demo application
\* app.js: start() tests the connection, listens, and exits with 1 when
\* either fails; a request received while listening goes through the
\* onRequest hook, the validation of its route's schema, and the handler.
Line(text) == [text |-> text, url |-> << >>]

\* console.log(`Request made to: ${request.url}`)
RequestLine(url) == [text |-> "Request made to: ", url |-> url]

Logged(log, text) == \E i \in DOMAIN log : log[i].text = text

StartFailed ==
    Line("Error connecting to the database or starting the server:")

\* Mutant of TestConnection: a failed test is logged and start() goes on.
TestConnection_GoesOn(ok) ==
    /\ app.pc = "testing"
    /\ app' = [app EXCEPT !.pc = "starting", !.log =
          IF ok
          THEN app.log \o << Line("Testing database connection..."),
                             Line("Database connected successfully."),
                             Line("Starting Fastify...") >>
          ELSE app.log \o << Line("Testing database connection..."), StartFailed >>]
    /\ UNCHANGED <<users, posts, userSeq, postSeq, request, response, storeCalls, inflight>>

\* start(): await prisma.$queryRaw`SELECT 1`, which the database answers
\* or not.
TestConnection(ok) ==
    /\ app.pc = "testing"
    /\ app' = IF ok
              THEN [app EXCEPT !.pc = "starting", !.log =
                      app.log \o << Line("Testing database connection..."),
                                    Line("Database connected successfully."),
                                    Line("Starting Fastify...") >>]
              ELSE [app EXCEPT !.pc = "exited", !.exitCode = 1, !.log =
                      app.log \o << Line("Testing database connection..."), StartFailed >>]
    /\ UNCHANGED <<users, posts, userSeq, postSeq, request, response, storeCalls, inflight>>

\* start(): await fastify.listen(...), which binds the port or fails.
Listen(ok) ==
    /\ app.pc = "starting"
    /\ app' = IF ok
              THEN [app EXCEPT !.pc = "listening", !.log =
                      Append(app.log, Line("Server listening on http://localhost:3000"))]
              ELSE [app EXCEPT !.pc = "exited", !.exitCode = 1, !.log =
                      Append(app.log, StartFailed)]
    /\ UNCHANGED <<users, posts, userSeq, postSeq, request, response, storeCalls, inflight>>

\* Names as the url parameter of /greet/:name: none, and of 2, 3 and 4
\* characters.
GreetNames == { << >>, Jo, Joe, John }

\* request.url
Url(req) ==
    IF req.op = "GET /greet/:name" THEN [path |-> "/greet/", param |-> req.param]
    ELSE IF req.op = "POST /user" THEN [path |-> "/user", param |-> << >>]
    ELSE [path |-> "/", param |-> << >>]

\* The server takes a request from the network.
Receive(op, param, body) ==
    /\ app.pc = "listening"
    /\ app.phase = "idle"
    /\ app.received < MaxRequests
    /\ request' = Request(op, param, body)
    /\ response' = Reply(0, "", << >>)
    /\ storeCalls' = 0
    /\ app' = [app EXCEPT !.phase = "onRequest", !.received = @ + 1]
    /\ UNCHANGED <<users, posts, userSeq, postSeq, inflight>>

\* Mutant of onRequest: the hook calls done() and logs nothing.
onRequest_Silent ==
    /\ app.phase = "onRequest"
    /\ app' = [app EXCEPT !.phase = "validation"]
    /\ UNCHANGED <<users, posts, userSeq, postSeq, request, response, storeCalls, inflight>>

\* app.js: fastify.addHook("onRequest", ...)
onRequest ==
    /\ app.phase = "onRequest"
    /\ app' = [app EXCEPT !.phase = "validation",
                          !.log = Append(@, RequestLine(Url(request)))]
    /\ UNCHANGED <<users, posts, userSeq, postSeq, request, response, storeCalls, inflight>>

GreetNameMin == 4

\* app.js: userSchema, params: name is a string of minLength 4.
userSchema(param) == Len(param) >= GreetNameMin

\* The framework's answer to a request its route's schema refuses.
BadRequest ==
    Reply(400, "FST_ERR_VALIDATION",
          [message |-> "params/name must NOT have fewer than 4 characters"])

\* Mutant of Validation: the name only has to be there (minLength 1).
Validation_NotEmpty ==
    /\ app.phase = "validation"
    /\ IF request.op = "GET /greet/:name" /\ Len(request.param) < 1
       THEN /\ response' = BadRequest
            /\ app' = [app EXCEPT !.phase = "idle"]
       ELSE /\ response' = response
            /\ app' = [app EXCEPT !.phase = "handler"]
    /\ UNCHANGED <<users, posts, userSeq, postSeq, request, storeCalls, inflight>>

\* The validation step of the lifecycle: the schema of the route, where
\* it has one (GET /greet/:name), decides whether the handler runs.
Validation ==
    /\ app.phase = "validation"
    /\ IF request.op = "GET /greet/:name" /\ ~userSchema(request.param)
       THEN /\ response' = BadRequest
            /\ app' = [app EXCEPT !.phase = "idle"]
       ELSE /\ response' = response
            /\ app' = [app EXCEPT !.phase = "handler"]
    /\ UNCHANGED <<users, posts, userSeq, postSeq, request, storeCalls, inflight>>

\* app.js: fastify.get("/")
RootHandler ==
    /\ app.phase = "handler"
    /\ request.op = "GET /"
    /\ response' = Reply(200, "", [message |-> "Hello, its Harshit here!"])
    /\ app' = [app EXCEPT !.phase = "idle"]
    /\ UNCHANGED <<users, posts, userSeq, postSeq, request, storeCalls, inflight>>

\* `Hello, ${name}!`
Hello(name) == << "H", "e", "l", "l", "o", ",", " " >> \o name \o << "!" >>

\* app.js: fastify.get("/greet/:name", { schema: userSchema }, ...)
GreetHandler ==
    /\ app.phase = "handler"
    /\ request.op = "GET /greet/:name"
    /\ response' = Reply(200, "", [message |-> Hello(request.param)])
    /\ app' = [app EXCEPT !.phase = "idle"]
    /\ UNCHANGED <<users, posts, userSeq, postSeq, request, storeCalls, inflight>>

\* app.js: fastify.post("/user"), as a step of the lifecycle.
UserHandler ==
    LET body == request.body
        r    == prisma_user_create(Pick(body, DOMAIN body \cap {"name", "email"}))
    IN  /\ app.phase = "handler"
        /\ request.op = "POST /user"
        /\ users' = r.users
        /\ userSeq' = r.userSeq
        /\ storeCalls' = 1
        /\ response' = IF r.error # "" THEN InternalServerError(r.error)
                       ELSE Reply(200, "", [message |-> "User created successfully",
                                            user |-> r.value])
        /\ app' = [app EXCEPT !.phase = "idle"]
        /\ UNCHANGED <<posts, postSeq, request, inflight>>

\* Mutant of UpdateUser: the whole body is the data of the update.
UpdateUser_WholeBody(param, body) ==
    LET req == Request("PUT /users/:id", param, body)
        r   == prisma_user_update(parseInt(param),
                                  Pick(body, DOMAIN body \cap {"id", "name", "email"}))
    IN  IF r.error # ""
        THEN Handled(req, r, InternalServerError(r.error), 1)
        ELSE Handled(req, r, Reply(200, "", r.value), 1)

\* server.js: fastify.put('/users/:id'); only name and email are read
\* from the body.
UpdateUser(param, body) ==
    LET req == Request("PUT /users/:id", param, body)
        r   == prisma_user_update(parseInt(param),
                                  Pick(body, DOMAIN body \cap {"name", "email"}))
    IN  IF r.error # ""
        THEN Handled(req, r, InternalServerError(r.error), 1)
        ELSE Handled(req, r, Reply(200, "", r.value), 1)

\* server.js: fastify.delete('/users/:id')
DeleteUser(param) ==
    LET req == Request("DELETE /users/:id", param, << >>)
        r   == prisma_user_delete(parseInt(param))
    IN  IF r.error # ""
        THEN Handled(req, r, InternalServerError(r.error), 1)
        ELSE Handled(req, r, Reply(204, "", << >>), 1)

\* server.js: fastify.post('/posts')
CreatePost(body) ==
    LET req    == Request("POST /posts", << >>, body)
        parsed == createPostSchema(body)
    IN  IF ~parsed.success
        THEN Handled(req, NoCall, Reply(400, "ZodError", parsed.errors), 0)
        ELSE LET r == prisma_post_create(parsed.data)
             IN  IF r.error # ""
                 THEN Handled(req, r, Reply(400, r.error, SentError(r.error)), 1)
                 ELSE Handled(req, r, Reply(201, "", r.value), 1)

\* server.js: fastify.put('/posts/:id'); the body is not validated.
UpdatePost(param, body) ==
    LET req == Request("PUT /posts/:id", param, body)
        r   == prisma_post_update(parseInt(param), Pick(body, DOMAIN body \cap PostFields))
    IN  IF r.error # ""
        THEN Handled(req, r, InternalServerError(r.error), 1)
        ELSE Handled(req, r, Reply(200, "", r.value), 1)

\* server.js: fastify.delete('/posts/:id')
DeletePost(param) ==
    LET req == Request("DELETE /posts/:id", param, << >>)
        r   == prisma_post_delete(parseInt(param))
    IN  IF r.error # ""
        THEN Handled(req, r, InternalServerError(r.error), 1)
        ELSE Handled(req, r, Reply(204, "", << >>), 1)

\* app.js: fastify.post('/user'); the body goes to the store as it came.
DemoCreateUser(body) ==
    LET req == Request("POST /user", << >>, body)
        r   == prisma_user_create(Pick(body, DOMAIN body \cap {"name", "email"}))
    IN  IF r.error # ""
        THEN Handled(req, r, InternalServerError(r.error), 1)
        ELSE Handled(req, r,
                     Reply(200, "", [message |-> "User created successfully",
                                     user |-> r.value]), 1)

Init ==
    /\ users = << >>
    /\ posts = << >>
    /\ userSeq = 0
    /\ postSeq = 0
    /\ request = Request("", << >>, << >>)
    /\ response = Reply(0, "", << >>)
    /\ storeCalls = 0
    /\ inflight = [slot \in Slots |-> Idle]
    /\ app = [pc |-> "testing", exitCode |-> -1, log |-> << >>,
              phase |-> "idle", received |-> 0]

Next ==
    \/ \E body \in UserBodies : CreateUser(body)
    \/ ListUsers
    \/ \E param \in IdParams : GetUser(param)
    \/ \E param \in IdParams, body \in UserPatches : UpdateUser(param, body)
    \/ \E param \in IdParams : DeleteUser(param)
    \/ \E body \in PostBodies : CreatePost(body)
    \/ \E body \in UserBodies : DemoCreateUser(body)
    \/ \E param \in IdParams, body \in PostPatches : UpdatePost(param, body)
    \/ \E param \in IdParams : DeletePost(param)

Spec == Init /\ [][Next]_vars

ConcurrentNext ==
    \/ \E slot \in Slots, body \in RaceBodies : CreateUserBegin(slot, body)
    \/ \E slot \in Slots, body \in RaceBodies : DemoCreateUserBegin(slot, body)
    \/ \E slot \in Slots : StoreCreate(slot)
    \/ \E slot \in Slots : CreateUserEnd(slot)
    \/ \E slot \in Slots : DemoCreateUserEnd(slot)

\* The create requests of the slots, handled at the same time.
ConcurrentSpec == Init /\ [][ConcurrentNext]_vars

DemoNext ==
    \/ \E ok \in BOOLEAN : TestConnection(ok)
    \/ \E ok \in BOOLEAN : Listen(ok)
    \/ Receive("GET /", << >>, << >>)
    \/ \E name \in GreetNames : Receive("GET /greet/:name", name, << >>)
    \/ \E body \in UserBodies : Receive("POST /user", << >>, body)
    \/ onRequest
    \/ Validation
    \/ RootHandler
    \/ GreetHandler
    \/ UserHandler

\* The demo application from its start.
DemoSpec == Init /\ [][DemoNext]_vars

\* ---------------------------------------------------------------- claims
CreateOps == {"POST /users", "POST /user"}

\* The id the url parameter of req names (after parseInt).
ParamId(req) == parseInt(req.param)

\* The field paths a reply's list of violations names.
IssuePaths(reply) == { reply.body[i].path : i \in DOMAIN reply.body }

StoreUnchanged ==
    /\ users' = users
    /\ posts' = posts
    /\ userSeq' = userSeq
    /\ postSeq' = postSeq

\* C1: every create request whose body lacks name or email is answered 400
\* with a validation error whose violations name each missing field.
C1_MissingFieldIsValidationError ==
    (request.op \in CreateOps /\ ~({"name", "email"} \subseteq DOMAIN request.body))
    => /\ response.status = 400
       /\ response.error = "ZodError"
       /\ ({"name", "email"} \ DOMAIN request.body) \subseteq IssuePaths(response)

\* The id a successful create answered with.
CreatedId == IF request.op = "POST /user" THEN response.body.user.id ELSE response.body.id

InputPlusId(body, id) ==
    [k \in DOMAIN body \cup {"id"} |-> IF k = "id" THEN id ELSE body[k]]

\* C2: a successful create followed by getById of the id it returned yields
\* the input record plus that id.
C2_CreateThenGetIsInputPlusId ==
    [][ ( /\ request.op \in CreateOps
          /\ response.error = ""
          /\ request'.op = "GET /users/:id"
          /\ ~ParamId(request').isNaN
          /\ ParamId(request').value = CreatedId )
        => ( /\ response'.status = 200
             /\ response'.body = InputPlusId(request.body, CreatedId) ) ]_vars

\* C3: a getById that follows a successful delete of the same id is
\* answered 404.
C3_DeleteThenGetIsNotFound ==
    [][ ( /\ request.op = "DELETE /users/:id"
          /\ response.status = 204
          /\ request'.op = "GET /users/:id"
          /\ ParamId(request') = ParamId(request) )
        => ( /\ response'.status = 404
             /\ response'.error = "NotFound" ) ]_vars

\* A User has just been deleted (so the getById of C3 is the next step).
C3_Witness ==
    /\ request.op = "DELETE /users/:id"
    /\ response.status = 204
    /\ ParamId(request).value \notin DOMAIN users
    /\ users # << >>

\* C4: an update with an empty patch of a stored User is answered 200 with
\* that record and changes no stored record.
C4_EmptyPatchChangesNothing ==
    [][ ( /\ request'.op = "PUT /users/:id"
          /\ DOMAIN request'.body = {}
          /\ ~ParamId(request').isNaN
          /\ ParamId(request').value \in DOMAIN users )
        => ( /\ StoreUnchanged
             /\ response'.status = 200
             /\ response'.body = UserRow(ParamId(request').value) ) ]_vars

\* An empty patch of a stored User has been answered.
C4_Witness ==
    /\ request.op = "PUT /users/:id"
    /\ DOMAIN request.body = {}
    /\ response.status = 200
    /\ ParamId(request).value \in DOMAIN users

\* C5: creating a Post whose userId matches no stored User is answered with
\* a validation error (400, not the store's constraint violation) and
\* stores no Post.
C5_UnknownUserIsValidationError ==
    [][ ( /\ request'.op = "POST /posts"
          /\ "userId" \in DOMAIN request'.body
          /\ request'.body.userId.int \notin DOMAIN users )
        => ( /\ response'.status = 400
             /\ response'.error = "ZodError"
             /\ posts' = posts ) ]_vars

\* The fields of a POST /users body that are missing or break their rule.
BadFields(body) ==
    { f \in {"name"} : f \notin DOMAIN body \/ Len(body[f]) < ServerNameMin }
    \cup { f \in {"email"} : f \notin DOMAIN body \/ ~IsEmail(body[f]) }

\* C6: the violations a create answers with cover every field that is
\* invalid or missing, not only the first.
C6_ViolationsOfEveryField ==
    (request.op = "POST /users" /\ BadFields(request.body) # {})
    => /\ response.error = "ZodError"
       /\ IssuePaths(response) = BadFields(request.body)

\* {name: "Jo"}: the name is too short and the email is missing.
C6_Witness ==
    /\ request.op = "POST /users"
    /\ request.body = [name |-> Jo]
    /\ response.body = << Issue("name", "Name must be at least 3 characters long"),
                          Issue("email", "Required") >>

\* The body fails the validation schema of the route it was sent to.
FailsValidation(req) ==
    IF req.op = "POST /user" THEN ~createUserSchema(req.body).success
    ELSE ~ServerCreateUserSchema(req.body).success

\* C7: a create whose body fails validation issues no store call, leaves
\* the Users unchanged and is answered with field-level messages.
C7_InvalidCreateNeverReachesStore ==
    [][ (request'.op \in CreateOps /\ FailsValidation(request'))
        => ( /\ storeCalls' = 0
             /\ users' = users
             /\ response'.status = 400
             /\ response'.error = "ZodError"
             /\ response'.body # << >> ) ]_vars

\* C8: no two stored Users have the same email.
C8_EmailUnique ==
    \A i, j \in DOMAIN users : users[i].email = users[j].email => i = j

\* Two Users are stored and the store has just refused a taken email.
C8_Witness ==
    /\ Cardinality(DOMAIN users) >= 2
    /\ response.error = "P2002"

ExpectedStatus(op) ==
    IF op \in {"POST /users", "POST /user", "POST /posts"} THEN 201
    ELSE IF op \in {"DELETE /users/:id", "DELETE /posts/:id"} THEN 204
    ELSE 200

\* C9: a successful operation answers 201 for a create, 200 for a read or
\* an update, 204 for a delete.
C9_SuccessStatusOfItsKind ==
    (request.op # "" /\ response.error = "")
    => response.status = ExpectedStatus(request.op)

C11_UpdateOfMissingIsNotFound ==
    [][ ( /\ request'.op = "PUT /users/:id"
          /\ ~ParamId(request').isNaN
          /\ ParamId(request').value \notin DOMAIN users )
        => ( /\ response'.status = 404
             /\ response'.error = "NotFound"
             /\ StoreUnchanged ) ]_vars

\* C12: a delete whose id names no stored User is answered "not found"
\* (404, a NotFoundError and not an error of the store) and leaves the
\* store as it was; so is the second of two deletes of the same id.
C12_DeleteOfMissingIsNotFound ==
    [][ ( /\ request'.op = "DELETE /users/:id"
          /\ ~ParamId(request').isNaN
          /\ ParamId(request').value \notin DOMAIN users )
        => ( /\ response'.status = 404
             /\ response'.error = "NotFound"
             /\ StoreUnchanged ) ]_vars

\* The errors the store answers a call with.
StoreErrors == {"P2002", "P2003", "P2025", "PrismaClientValidationError"}

\* C13: a failure of the store is answered 500 with a generic message,
\* never 400, and the store's error is not part of the response.
C13_StoreFailureIsGeneric500 ==
    (request.op \in CreateOps /\ response.error \in StoreErrors)
    => /\ response.status = 500
       /\ response.body # SentError(response.error)

\* C14: in every reachable state the userId of every stored Post is the
\* id of a stored User.
C14_PostsReferToStoredUsers ==
    \A p \in DOMAIN posts : posts[p].userId \in DOMAIN users

\* A stored Post was to be handed to a User that is not stored, and the
\* store refused.
C14_Witness ==
    /\ request.op = "PUT /posts/:id"
    /\ response.error = "P2003"
    /\ posts # << >>

\* C15: the id of a User is made by the server, unique, and never
\* changes: a create stores its User under the next value of the sequence,
\* an id no stored User has, whatever id the body carries; an update
\* leaves the ids of the table as they were and answers with the id of
\* its url.
C15_IdGeneratedUniqueImmutable ==
    [][ /\ DOMAIN users' \subseteq DOMAIN users \cup {userSeq + 1}
        /\ (request'.op \in CreateOps /\ response'.error = "")
           => LET created == IF request'.op = "POST /user"
                             THEN response'.body.user.id ELSE response'.body.id
              IN  /\ created = userSeq + 1
                  /\ created \notin DOMAIN users
                  /\ DOMAIN users' = DOMAIN users \cup {created}
        /\ (request'.op = "PUT /users/:id" /\ response'.error = "")
           => /\ DOMAIN users' = DOMAIN users
              /\ response'.body.id = ParamId(request').value ]_vars

\* An update whose body carries an id was carried out.
C15_Witness ==
    /\ request.op = "PUT /users/:id"
    /\ "id" \in DOMAIN request.body
    /\ response.status = 200

\* C16: list answers with exactly the stored Users, those created and not
\* deleted since, each with the values its fields have now, and changes
\* nothing in the store.
C16_ListIsTheStoredUsers ==
    [][ request'.op = "GET /users"
        => /\ StoreUnchanged
           /\ response'.status = 200
           /\ response'.body = { [id |-> i, name |-> users[i].name,
                                  email |-> users[i].email] : i \in DOMAIN users } ]_vars

\* A list was answered while two Users are stored.
C16_Witness ==
    /\ request.op = "GET /users"
    /\ response.status = 200
    /\ Cardinality(DOMAIN users) = 2

\* The fields of a User a client can set.
UserFields == {"name", "email", "address"}

\* C17: an update of a stored User sets exactly the fields its patch
\* carries to the values of the patch and leaves the other fields of the
\* record, and every other record, as they were.
C17_UpdateSetsThePatchedFields ==
    [][ (request'.op = "PUT /users/:id" /\ response'.status = 200)
        => LET id    == ParamId(request').value
               patch == request'.body
           IN  /\ \A f \in DOMAIN patch \cap UserFields :
                     /\ f \in DOMAIN response'.body
                     /\ response'.body[f] = patch[f]
               /\ \A f \in {"name", "email"} \ DOMAIN patch :
                     users'[id][f] = users[id][f]
               /\ DOMAIN users' = DOMAIN users
               /\ \A i \in DOMAIN users \ {id} : users'[i] = users[i] ]_vars

\* C18: the address is optional: a create is accepted with it or without
\* it, and the record a create with an address answers with carries that
\* address.
C18_CreateKeepsTheAddress ==
    (request.op \in CreateOps /\ "address" \in DOMAIN request.body)
    => /\ response.error = ""
       /\ LET record == IF request.op = "POST /user"
                        THEN response.body.user ELSE response.body
          IN  /\ "address" \in DOMAIN record
              /\ record.address = request.body.address

\* C19: in every reachable state every stored User satisfies the rules of
\* validation: a name of the minimum length, an email of email format.
C19_StoredUsersAreValid ==
    \A i \in DOMAIN users :
        /\ Len(users[i].name) >= ServerNameMin
        /\ IsEmail(users[i].email)

\* The slot's request is a create of valid input that has been answered.
ValidAndDone(slot) ==
    /\ inflight[slot].pc = "done"
    /\ ServerCreateUserSchema(inflight[slot].body).success

\* C20: of two create requests with the same valid email handled at the
\* same time, in any interleaving, at most one stores a User, the other is
\* answered with an error, and the store ends with exactly one User of
\* that email.
C20_ConcurrentCreatesOneWins ==
    \A s, t \in Slots :
        ( /\ s # t
          /\ ValidAndDone(s)
          /\ ValidAndDone(t)
          /\ inflight[s].body.email = inflight[t].body.email )
        => /\ inflight[s].reply.error # "" \/ inflight[t].reply.error # ""
           /\ inflight[s].reply.error # "" => inflight[s].reply.status >= 400
           /\ inflight[t].reply.error # "" => inflight[t].reply.status >= 400
           /\ Cardinality({ i \in DOMAIN users :
                              users[i].email = inflight[s].body.email }) = 1

\* Both requests have been answered: the first lost to the unique index,
\* the second stored its User.
C20_Witness ==
    /\ ValidAndDone(1)
    /\ ValidAndDone(2)
    /\ inflight[1].body.email = inflight[2].body.email
    /\ inflight[1].reply.error = "P2002"
    /\ inflight[2].reply.error = ""
    /\ DOMAIN users = {1}

\* C21: the bound on the length of a name is 4: given a valid email, a
\* create with a shorter name is rejected with the violation "Name must
\* be at least 4 characters", and one with a name of 4 characters passes
\* validation.
C21_NameBoundIsFour ==
    ( /\ request.op \in CreateOps
      /\ {"name", "email"} \subseteq DOMAIN request.body
      /\ IsEmail(request.body.email) )
    => IF Len(request.body.name) < SchemaNameMin
       THEN /\ response.status = 400
            /\ response.error = "ZodError"
            /\ \E i \in DOMAIN response.body :
                  response.body[i] = Issue("name", "Name must be at least 4 characters")
       ELSE response.error # "ZodError"

\* C22: the list of violations a validation answers with has at most one
\* violation for any one field path.
C22_OneViolationPerField ==
    response.error = "ZodError"
    => \A i, j \in DOMAIN response.body :
          response.body[i].path = response.body[j].path => i = j

\* C23: generated ids are never used again: the sequence never goes back,
\* every id stored is at or below it, and a row only ever appears under
\* an id above it, so the id of a create differs from the id of every
\* earlier create, the deleted ones included, and a getById of an id
\* that was deleted is answered "not found" ever after.
C23_IdsAreNeverReused ==
    [][ /\ DOMAIN users \subseteq 1 .. userSeq
        /\ userSeq' >= userSeq
        /\ \A i \in DOMAIN users' \ DOMAIN users : i > userSeq
        /\ (request'.op \in CreateOps /\ response'.error = "")
           => (IF request'.op = "POST /user"
               THEN response'.body.user.id ELSE response'.body.id) > userSeq
        /\ ( /\ request'.op = "GET /users/:id"
             /\ ~ParamId(request').isNaN
             /\ ParamId(request').value \in (1 .. userSeq) \ DOMAIN users )
           => response'.status = 404 ]_vars

\* A create was answered with the id 2 after the User 1 had been deleted.
C23_Witness ==
    /\ request.op = "POST /users"
    /\ response.status = 201
    /\ response.body.id = 2
    /\ 1 \notin DOMAIN users

\* C24: a create or an update that the store refuses because another
\* stored User has its email changes nothing: the stored Users and all
\* their fields are the same after it as before.
C24_RefusedEmailChangesNothing ==
    [][ ( /\ request'.op \in CreateOps \cup {"PUT /users/:id"}
          /\ response'.error = "P2002" )
        => /\ users' = users
           /\ posts' = posts ]_vars

\* An update of name and email was refused for its email.
C24_Witness ==
    /\ request.op = "PUT /users/:id"
    /\ {"name", "email"} \subseteq DOMAIN request.body
    /\ response.error = "P2002"

\* The operations on Users of server.js.
UserOps == {"POST /users", "GET /users", "GET /users/:id", "PUT /users/:id",
            "DELETE /users/:id"}

C26_ListenAfterConnectionOrExit ==
    [][ /\ app'.pc = "listening"
           => Logged(app'.log, "Database connected successfully.")
        /\ Logged(app'.log, StartFailed.text)
           => /\ app'.pc = "exited"
              /\ app'.exitCode = 1
        /\ app'.pc = "exited"
           => ~Logged(app'.log, "Server listening on http://localhost:3000")
        /\ app.pc = "exited" => app' = app ]_vars

\* The connection test succeeded, the listen failed, the process is gone.
C26_Witness ==
    /\ app.pc = "exited"
    /\ app.exitCode = 1
    /\ Logged(app.log, "Database connected successfully.")

\* C27: GET /greet/:name is answered {message: "Hello, <name>!"} exactly
\* when the name has 4 characters or more; for a shorter name or none the
\* request is refused with a validation error and the handler does not
\* run.
C27_GreetNeedsFourCharacters ==
    [][ request'.op = "GET /greet/:name"
        => IF Len(request'.param) >= GreetNameMin
           THEN response'.status # 0
                => response' = Reply(200, "", [message |-> Hello(request'.param)])
           ELSE /\ app'.phase # "handler"
                /\ response'.status # 0
                   => /\ response'.status = 400
                      /\ response'.error = "FST_ERR_VALIDATION" ]_vars

\* The name Joe, of 3 characters, was refused.
C27_Witness ==
    /\ request.op = "GET /greet/:name"
    /\ request.param = Joe
    /\ response.status = 400

\* The lines of the onRequest hook on the console.
RequestLines(log) == { i \in DOMAIN log : log[i].text = RequestLine(<< >>).text }

\* C28: the onRequest hook runs for every request, on every route, before
\* the handler: the url of each request is logged exactly once, and that
\* line is on the console before any store call or response of the
\* request.
C28_HookLogsOnceBeforeHandler ==
    [][ /\ Cardinality(RequestLines(app'.log))
             = app'.received - (IF app'.phase = "onRequest" THEN 1 ELSE 0)
        /\ (response'.status # 0 \/ storeCalls' > 0 \/ app'.phase = "handler")
           => /\ app'.log # << >>
              /\ app'.log[Len(app'.log)] = RequestLine(Url(request')) ]_vars

\* The second request, a create, has been answered.
C28_Witness ==
    /\ app.received = 2
    /\ request.op = "POST /user"
    /\ storeCalls = 1
    /\ response.status = 200

====
